---- MODULE Spec2Model ----
(***************************************************************************)
(* A model of the IPO research pipeline (src/main.py run_pipeline) and of  *)
(* the collectors, parsers and writers it calls.                           *)
(*                                                                         *)
(* One run of run_pipeline is a sequential process; pc is its position.    *)
(* Every external call (DART OpenAPI, 38.co.kr, the LLM) is an action      *)
(* whose outcome is drawn from a set given by the environment E of the     *)
(* specification: "ok", "fail" (an answer that reports a failure without   *)
(* raising) or "raise" (an exception).  The code between two external      *)
(* calls belongs to the action of the call before it.                      *)
(*                                                                         *)
(* Python values: None is <<>> and a present value v is <<v>> where an     *)
(* optional value is stored; a dict is a function over its keys.           *)
(* Korean keywords are written by ASCII tags (see the marker section).     *)
(***************************************************************************)
EXTENDS Integers, Sequences, FiniteSets, TLC

\* ------------------------------------------------------------------------
\* Bounds of the model
\* ------------------------------------------------------------------------

\* Longest list of filings search_filings returns in the model.
MaxFilings == 2

\* Most keys a crawler_data dict given to merge_offering_data holds.
MaxCrawlerKeys == 2

\* Most items of corp_codes.xml, and the longest company name.
MaxItems == 2
MaxNameLen == 2

\* Most items DART returns for one year, and most rows of a summary, in the
\* direct calls of the functions of parsers/financial.py.
MaxFinItems == 2
MaxRows == 2

\* Most tokens of an html given to _extract_section, and the length of the
\* filler token.
MaxTokens == 4
FillerLen == 100

\* Most events (a process start, a download, a parse of the file) in io_log.
MaxLog == 5

\* ------------------------------------------------------------------------
\* Small helpers (Python built-ins)
\* ------------------------------------------------------------------------

None == <<>>
Some(v) == <<v>>

Range(s) == {s[i] : i \in 1..Len(s)}

\* dict.update / dict(d) with extra keys: right operand wins.
Update(d, e) == [k \in (DOMAIN d) \cup (DOMAIN e) |-> IF k \in DOMAIN e THEN e[k] ELSE d[k]]

EmptyDict == [k \in {} |-> None]

\* All sequences over S of length 0..n.
SeqsUpTo(S, n) == UNION {[1..k -> S] : k \in 0..n}

\* ------------------------------------------------------------------------
\* Report-name markers.  A report_nm is modelled by the set of the keywords
\* it contains as substrings, which is all the code ever asks of it.
\*   REG          "증권신고서"   (registration statement)
\*   AMENDED      "기재정정"     (amended)
\*   ISSUE_RESULT "발행실적"     (issuance-result report)
\*   TERMS_FIXED  "발행조건확정" (terms-fixed notice)
\*   PROSPECTUS   "투자설명서"   (prospectus)
\*   ATTACHMENT   "첨부"         (attachment)
\* ------------------------------------------------------------------------

REG == "REG"
AMENDED == "AMENDED"
ISSUE_RESULT == "ISSUE_RESULT"
TERMS_FIXED == "TERMS_FIXED"
PROSPECTUS == "PROSPECTUS"
ATTACHMENT == "ATTACHMENT"

\* `kw in name`
Contains(name, kw) == kw \in name

\* Report names DART returns for disclosure type C (issuance disclosures).
ReportNames ==
    { {REG},                        \* 증권신고서(지분증권)
      {AMENDED, REG},               \* [기재정정]증권신고서(지분증권)
      {TERMS_FIXED, REG},           \* [발행조건확정]증권신고서(지분증권)
      {AMENDED, TERMS_FIXED, REG},  \* [기재정정][발행조건확정]증권신고서
      {ISSUE_RESULT},               \* 증권발행실적보고서
      {PROSPECTUS},                 \* 투자설명서
      {ATTACHMENT, PROSPECTUS},     \* [첨부정정]투자설명서
      {} }                          \* any other report

\* A list of filings: receipt numbers are unique, here the position in the list.
MkFilings(names) == [i \in 1..Len(names) |-> [report_nm |-> names[i], rcept_no |-> i]]

AllFilingLists == {MkFilings(ns) : ns \in SeqsUpTo(ReportNames, MaxFilings)}

\* ------------------------------------------------------------------------
\* src/main.py 64-95: choice of the filing to download
\* ------------------------------------------------------------------------

\* line 72: the filter of the candidates loop
IsCandidate(f) ==
    /\ Contains(f.report_nm, REG)
    /\ ~Contains(f.report_nm, ISSUE_RESULT)
    /\ ~Contains(f.report_nm, TERMS_FIXED)

\* a faulty priority: the original statement ranked before the amended one
PriorityOriginalFirst(f) == IF Contains(f.report_nm, AMENDED) THEN 1 ELSE 0

\* line 73
Priority(f) == IF Contains(f.report_nm, AMENDED) THEN 0 ELSE 1

KeyIs0(c) == c[1] = 0
KeyIs1(c) == c[1] = 1

\* lines 69-74: candidates, a list of (priority, filing) pairs in list order
Candidates(fs) ==
    LET cand == SelectSeq(fs, IsCandidate)
    IN  [i \in 1..Len(cand) |-> <<Priority(cand[i]), cand[i]>>]

\* line 75: list.sort(key=lambda x: x[0]) is stable; the keys are 0 and 1
SortByPriority(c) == SelectSeq(c, KeyIs0) \o SelectSeq(c, KeyIs1)

\* line 86: the prospectus test of the second loop
IsInvestDoc(f) == Contains(f.report_nm, PROSPECTUS) /\ ~Contains(f.report_nm, ATTACHMENT)

\* lines 83-89: the first prospectus of the list, or None
InvestDoc(fs) ==
    LET docs == SelectSeq(fs, IsInvestDoc)
    IN  IF docs = <<>> THEN None ELSE Some(docs[1].rcept_no)

\* lines 93-94: fallback to the first filing of the list
FallbackRceptNo(fs) == Some(fs[1].rcept_no)

\* lines 66-95: rcept_no after the block (None when the list is empty)
ChooseRceptNo(fs) ==
    IF fs = <<>> THEN None
    ELSE LET sorted == SortByPriority(Candidates(fs))
             picked == IF sorted # <<>> THEN Some(sorted[1][2].rcept_no) ELSE None
         IN  IF picked = None THEN FallbackRceptNo(fs) ELSE picked

\* ------------------------------------------------------------------------
\* Text and numbers.  A str is a sequence of one-character strings.
\* W, J, B stand for the unit characters 원, 주, 배 of _clean_num's regex.
\* ------------------------------------------------------------------------

Digits == <<"0", "1", "2", "3", "4", "5", "6", "7", "8", "9">>
IsDigit(c) == c \in Range(Digits)
DigitVal(c) == CHOOSE d \in 0..9 : Digits[d + 1] = c

RECURSIVE DigitsValue(_)
DigitsValue(s) ==
    IF s = <<>> THEN 0
    ELSE 10 * DigitsValue(SubSeq(s, 1, Len(s) - 1)) + DigitVal(s[Len(s)])

AllDigits(s) == s # <<>> /\ \A i \in 1..Len(s) : IsDigit(s[i])
Unsigned(s) == IF s # <<>> /\ s[1] \in {"-", "+"} THEN Tail(s) ELSE s
Sign(s) == IF s # <<>> /\ s[1] = "-" THEN -1 ELSE 1

\* int(text): Some(n), or None for ValueError
PyInt(s) == IF AllDigits(Unsigned(s)) THEN Some(Sign(s) * DigitsValue(Unsigned(s))) ELSE None

\* int(float(text)) for plain decimals "12.5": Some(n), or None for ValueError
PyFloatInt(s) ==
    LET u == Unsigned(s)
        dots == {i \in 1..Len(u) : u[i] = "."}
    IN  IF Cardinality(dots) = 1 /\ Len(u) >= 2
           /\ \A i \in 1..Len(u) : i \in dots \/ IsDigit(u[i])
        THEN LET d == CHOOSE i \in dots : TRUE
             IN  Some(Sign(s) * DigitsValue(SubSeq(u, 1, d - 1)))
        ELSE None

\* the two nested try blocks shared by _clean_num and _parse_amount
IntOrFloatInt(cleaned) ==
    IF cleaned = <<>> \/ cleaned = <<"-">> THEN None
    ELSE IF PyInt(cleaned) # None THEN PyInt(cleaned)
    ELSE PyFloatInt(cleaned)

NotCleanNumNoise(c) == c \notin {",", " ", "W", "J", "B", "%"}
NotAmountNoise(c) == c \notin {",", " "}

\* parsers/offering.py _clean_num; val is None or Some(text)
CleanNum(val) ==
    IF val = None \/ val = Some(<<>>) THEN None
    ELSE IntOrFloatInt(SelectSeq(val[1], NotCleanNumNoise))

\* parsers/financial.py _parse_amount; val is None or Some(text)
ParseAmount(val) ==
    IF val = None \/ val = Some(<<>>) THEN None
    ELSE IntOrFloatInt(SelectSeq(val[1], NotAmountNoise))

\* dict.get(k) and dict.get(k, default)
Get(d, k) == IF k \in DOMAIN d THEN Some(d[k]) ELSE None
GetOr(d, k, dflt) == IF k \in DOMAIN d THEN d[k] ELSE dflt

\* ------------------------------------------------------------------------
\* src/parsers/offering.py
\* ------------------------------------------------------------------------

ParseSecurity(item) ==
    [type |-> GetOr(item, "stksen", <<>>),
     count |-> CleanNum(Get(item, "stkcnt")),
     face_value |-> CleanNum(Get(item, "fv")),
     offering_price |-> CleanNum(Get(item, "slprc")),
     total_amount |-> CleanNum(Get(item, "slta")),
     method |-> GetOr(item, "slmthn", <<>>)]

ParseUnderwriter(item) ==
    [type |-> GetOr(item, "actsen", <<>>),
     name |-> GetOr(item, "actnmn", <<>>),
     count |-> CleanNum(Get(item, "udtcnt")),
     amount |-> CleanNum(Get(item, "udtamt")),
     method |-> GetOr(item, "udtmth", <<>>)]

ParseFundUsage(item) ==
    [category |-> GetOr(item, "se", <<>>), amount |-> CleanNum(Get(item, "amt"))]

ParseSeller(item) ==
    [holder |-> GetOr(item, "hdr", <<>>),
     relationship |-> GetOr(item, "rl_cmp", <<>>),
     before_sale |-> CleanNum(Get(item, "bfsl_hdstk")),
     sold |-> CleanNum(Get(item, "slstk")),
     after_sale |-> CleanNum(Get(item, "atsl_hdstk"))]

\* lines 51-54: every item of "general" overwrites the three dates, the last wins
GeneralPart(general) ==
    IF general = <<>> THEN EmptyDict
    ELSE LET item == general[Len(general)]
         IN  [subscription_date |-> GetOr(item, "sbd", <<>>),
              payment_date |-> GetOr(item, "pymd", <<>>),
              subscription_announcement |-> GetOr(item, "sband", <<>>)]

parse_equity_registration(data) ==
    Update(GeneralPart(data.general),
           [securities |-> [i \in 1..Len(data.securities) |-> ParseSecurity(data.securities[i])],
            underwriters |-> [i \in 1..Len(data.underwriters) |-> ParseUnderwriter(data.underwriters[i])],
            fund_usage |-> [i \in 1..Len(data.fund_usage) |-> ParseFundUsage(data.fund_usage[i])],
            sellers |-> [i \in 1..Len(data.sellers) |-> ParseSeller(data.sellers[i])]])

\* the twelve keys of extra_fields, in dict order
ExtraFields ==
    <<"confirmed_price", "institutional_competition", "lockup_commitment", "listing_date",
      "demand_forecast_date", "subscription_date", "lead_underwriter", "offering_shares",
      "total_shares", "institutional_allocation", "retail_allocation", "employee_allocation">>

\* f"crawler_{field}"
CrawlerKey(field) ==
    CASE field = "confirmed_price" -> "crawler_confirmed_price"
      [] field = "institutional_competition" -> "crawler_institutional_competition"
      [] field = "lockup_commitment" -> "crawler_lockup_commitment"
      [] field = "listing_date" -> "crawler_listing_date"
      [] field = "demand_forecast_date" -> "crawler_demand_forecast_date"
      [] field = "subscription_date" -> "crawler_subscription_date"
      [] field = "lead_underwriter" -> "crawler_lead_underwriter"
      [] field = "offering_shares" -> "crawler_offering_shares"
      [] field = "total_shares" -> "crawler_total_shares"
      [] field = "institutional_allocation" -> "crawler_institutional_allocation"
      [] field = "retail_allocation" -> "crawler_retail_allocation"
      [] field = "employee_allocation" -> "crawler_employee_allocation"

\* a faulty test that takes a field as soon as crawler_data holds it
TruthyWhenPresent(text) == TRUE

\* a str value is truthy when it is not empty
Truthy(text) == text # <<>>

\* crawler_data is None or Some(dict)
merge_offering_data(dart_data, crawler_data) ==
    IF crawler_data = None \/ DOMAIN crawler_data[1] = {} THEN dart_data
    ELSE LET cd == crawler_data[1]
             taken == {f \in Range(ExtraFields) : f \in DOMAIN cd /\ Truthy(cd[f])}
             extra == [k \in {CrawlerKey(f) : f \in taken} |->
                          cd[CHOOSE f \in taken : CrawlerKey(f) = k]]
         IN  Update(dart_data, extra)

\* ------------------------------------------------------------------------
\* src/parsers/financial.py
\* Account names are written by the field they map to: the account_nm
\* "매출액" is "ACC_revenue", and so on; any other account is "ACC_other".
\* ------------------------------------------------------------------------

\* KEY_ACCOUNTS.values(), in dict order
KeyFields ==
    <<"total_assets", "total_liabilities", "total_equity", "revenue",
      "operating_income", "net_income", "operating_cashflow">>

\* KEY_ACCOUNTS
KEY_ACCOUNTS ==
    [ACC_total_assets |-> "total_assets", ACC_total_liabilities |-> "total_liabilities",
     ACC_total_equity |-> "total_equity", ACC_revenue |-> "revenue",
     ACC_operating_income |-> "operating_income", ACC_net_income |-> "net_income",
     ACC_operating_cashflow |-> "operating_cashflow"]

\* line 51: "연결" (consolidated) for fs_div CFS, "별도" (separate) otherwise
FsType(item) == IF Get(item, "fs_div") = Some("CFS") THEN "consolidated" ELSE "separate"

IsKeyItem(item) == GetOr(item, "account_nm", "") \in DOMAIN KEY_ACCOUNTS

\* parse_financials: fs_type -> field -> current amount; a later item of the
\* same statement type and account overwrites an earlier one
parse_financials(raw_items) ==
    LET keyed == SelectSeq(raw_items, IsKeyItem)
        types == {FsType(keyed[i]) : i \in 1..Len(keyed)}
        fieldsOf(t) == {KEY_ACCOUNTS[keyed[i].account_nm] :
                            i \in {j \in 1..Len(keyed) : FsType(keyed[j]) = t}}
        lastOf(t, f) == CHOOSE i \in 1..Len(keyed) :
                            /\ FsType(keyed[i]) = t
                            /\ KEY_ACCOUNTS[keyed[i].account_nm] = f
                            /\ \A j \in (i + 1)..Len(keyed) :
                                  ~(FsType(keyed[j]) = t /\ KEY_ACCOUNTS[keyed[j].account_nm] = f)
    IN  [t \in types |->
            [f \in fieldsOf(t) |-> [current |-> ParseAmount(Get(keyed[lastOf(t, f)], "thstrm_amount"))]]]

\* a faulty choice that prefers the separate statements
ChosenStatementSeparateFirst(parsed) ==
    IF "separate" \in DOMAIN parsed /\ DOMAIN parsed["separate"] # {}
    THEN parsed["separate"]
    ELSE IF "consolidated" \in DOMAIN parsed /\ DOMAIN parsed["consolidated"] # {}
    THEN parsed["consolidated"]
    ELSE EmptyDict

\* line 88: parsed.get("연결") or parsed.get("별도") or {}
ChosenStatement(parsed) ==
    IF "consolidated" \in DOMAIN parsed /\ DOMAIN parsed["consolidated"] # {}
    THEN parsed["consolidated"]
    ELSE IF "separate" \in DOMAIN parsed /\ DOMAIN parsed["separate"] # {}
    THEN parsed["separate"]
    ELSE EmptyDict

\* lines 90-94: the row of one year
SummaryRow(year, items) ==
    LET fs == ChosenStatement(parse_financials(items))
    IN  Update([year |-> year],
               [f \in Range(KeyFields) |-> IF f \in DOMAIN fs THEN fs[f].current ELSE None])

\* str < str: code-point order, character by character
CharOrder == <<".", "0", "1", "2", "3", "4", "5", "6", "7", "8", "9", "H", "Q">>
CharCode(c) == CHOOSE i \in 1..Len(CharOrder) : CharOrder[i] = c

RECURSIVE StrLess(_, _)
StrLess(a, b) ==
    IF b = <<>> THEN FALSE
    ELSE IF a = <<>> THEN TRUE
    ELSE IF a[1] = b[1] THEN StrLess(Tail(a), Tail(b))
    ELSE CharCode(a[1]) < CharCode(b[1])

\* sorted(keys) of a set of strs
RECURSIVE SortedSeq(_)
SortedSeq(S) ==
    IF S = {} THEN <<>>
    ELSE LET m == CHOOSE x \in S : \A y \in S \ {x} : StrLess(x, y)
         IN  <<m>> \o SortedSeq(S \ {m})

\* multi_year is a dict year -> items
build_financial_summary(multi_year) ==
    LET years == SortedSeq(DOMAIN multi_year)
    IN  [i \in 1..Len(years) |-> SummaryRow(years[i], multi_year[years[i]])]

YoyFields == <<"revenue", "operating_income", "net_income">>

YoyKey(field) ==
    CASE field = "revenue" -> "revenue_yoy"
      [] field = "operating_income" -> "operating_income_yoy"
      [] field = "net_income" -> "net_income_yoy"

Abs(n) == IF n < 0 THEN -n ELSE n

\* line 108: `prev_val and curr_val and prev_val != 0` (None and 0 are falsy)
HasYoy(prev, curr, f) ==
    /\ Get(prev, f) # None /\ prev[f] # None /\ prev[f][1] # 0
    /\ Get(curr, f) # None /\ curr[f] # None /\ curr[f][1] # 0

\* line 109: the rate (curr - prev) / abs(prev), kept as the pair <<numerator, denominator>>
Yoy(prev, curr, f) == <<curr[f][1] - prev[f][1], Abs(prev[f][1])>>

\* the rows are changed in place, but a yoy never reads a key another yoy writes
calc_growth_rates(summary) ==
    [i \in 1..Len(summary) |->
        IF i = 1 THEN summary[i]
        ELSE LET fields == {f \in Range(YoyFields) : HasYoy(summary[i - 1], summary[i], f)}
             IN  Update(summary[i],
                        [k \in {YoyKey(f) : f \in fields} |->
                            Yoy(summary[i - 1], summary[i],
                                CHOOSE f \in fields : YoyKey(f) = k)])]

\* ------------------------------------------------------------------------
\* src/main.py _convert_filing_financials
\* ------------------------------------------------------------------------

\* lines 232-237: str(item.get("year", "")) cut at the first "." or to four characters
YearPart(year) ==
    LET dots == {i \in 1..Len(year) : year[i] = "."}
    IN  IF dots # {}
        THEN SubSeq(year, 1, (CHOOSE i \in dots : \A j \in dots : i <= j) - 1)
        ELSE IF Len(year) >= 4 THEN SubSeq(year, 1, 4) ELSE year

\* lines 239-249
FilingRow(item) ==
    [year |-> YearPart(GetOr(item, "year", <<>>)),
     revenue |-> GetOr(item, "revenue", None),
     operating_income |-> GetOr(item, "operating_income", None),
     net_income |-> GetOr(item, "net_income", None),
     total_assets |-> GetOr(item, "total_assets", None),
     total_liabilities |-> GetOr(item, "total_liabilities", None),
     total_equity |-> GetOr(item, "total_equity", None),
     operating_cashflow |-> GetOr(item, "operating_cashflow", None),
     source |-> "filing"]

\* line 255: result.sort(key=lambda x: x["year"]), a stable sort (insertion of each
\* row after the rows whose year is not greater)
RECURSIVE SortByYear(_)
SortByYear(rows) ==
    IF rows = <<>> THEN <<>>
    ELSE LET done == SortByYear(SubSeq(rows, 1, Len(rows) - 1))
             r == rows[Len(rows)]
             k == Cardinality({i \in 1..Len(done) : ~StrLess(r.year, done[i].year)})
         IN  SubSeq(done, 1, k) \o <<r>> \o SubSeq(done, k + 1, Len(done))

\* lines 253-259: the first row of every year
FirstOfYear(rows) ==
    LET keep == {i \in 1..Len(rows) : \A j \in 1..(i - 1) : rows[j].year # rows[i].year}
        RECURSIVE Pick(_)
        Pick(i) == IF i > Len(rows) THEN <<>>
                   ELSE (IF i \in keep THEN <<rows[i]>> ELSE <<>>) \o Pick(i + 1)
    IN  Pick(1)

convert_filing_financials(filing_fin) ==
    LET result == [i \in 1..Len(filing_fin) |-> FilingRow(filing_fin[i])]
        unique == FirstOfYear(SortByYear(result))
    IN  IF unique # <<>> THEN calc_growth_rates(unique) ELSE <<>>

\* ------------------------------------------------------------------------
\* State of one run of run_pipeline
\* ------------------------------------------------------------------------

VARIABLES
    pc,                 \* position in run_pipeline
    skip_filing,        \* argument
    skip_analysis,      \* argument
    corp,               \* local: None or Some(entry of the corp-code table)
    collected,          \* the dict `collected`
    filings,            \* local: the list search_filings returned
    rcept_no,           \* local: None or Some(receipt number)
    fin_pos,            \* get_financials_multi_year: <<year index, report-code index>>
    fin_raw,            \* get_financials_multi_year: result, year -> items
    page,               \* get_demand_forecast_list: the page being fetched
    has_financials,     \* local of Step 4
    parsed,             \* parse_full_filing: the dict `result`
    valuation_summary,  \* extract_peer_valuation: shape of the pass-1 summary
    analysis_report,    \* local: "" or the report text
    written,            \* output files written: "md", "xlsx", "json"
    steps,              \* history: <<"start", k>> and <<"end", k>> of Step k
    requests,           \* history: external requests issued, [key, out]
    call,               \* a direct call of a library function: its arguments,
                        \* result and the first argument as the call leaves it
    corp_code_cache,    \* dart_api._corp_code_cache: None or Some(table)
    cache_file,         \* corp_codes.xml: None (no file) or Some(items)
    io_log              \* history of the corp-code master: downloads and parses

vars == <<pc, skip_filing, skip_analysis, corp, collected, filings, rcept_no, fin_pos, fin_raw,
          page, has_financials, parsed, valuation_summary, analysis_report, written,
          steps, requests, call, corp_code_cache, cache_file, io_log>>

\* the state outside run_pipeline: library calls and the corp-code master
lib == <<call, corp_code_cache, cache_file, io_log>>

args == <<skip_filing, skip_analysis>>
step2_locals == <<filings, rcept_no, fin_pos, fin_raw>>
step4_locals == <<has_financials, parsed, valuation_summary>>

\* get_financials_multi_year line 234: the default years
Y2022 == <<"2", "0", "2", "2">>
Y2023 == <<"2", "0", "2", "3">>
Y2024 == <<"2", "0", "2", "4">>
Years == <<Y2022, Y2023, Y2024>>

\* get_financials line 208 and get_financials_multi_year line 244: annual report,
\* then half-year, third-quarter and first-quarter reports
ReprtCodes == <<"11011", "11012", "11014", "11013">>

\* search_by_name line 194: pages of the demand-forecast list
Pages == 5

\* no library call under way, the corp-code master not looked at
LibIdle ==
    /\ call = [fn |-> "none"]
    /\ corp_code_cache = None
    /\ cache_file = None
    /\ io_log = <<>>

Init ==
    /\ LibIdle
    /\ pc = "step1"
    /\ skip_filing \in BOOLEAN
    /\ skip_analysis \in BOOLEAN
    /\ corp = None
    /\ collected = EmptyDict
    /\ filings = <<>>
    /\ rcept_no = None
    /\ fin_pos = <<1, 1>>
    /\ fin_raw = EmptyDict
    /\ page = 1
    /\ has_financials = FALSE
    /\ parsed = EmptyDict
    /\ valuation_summary = "{}"
    /\ analysis_report = ""
    /\ written = {}
    /\ steps = <<>>
    /\ requests = <<>>

Req(api, op, params, out) == [key |-> <<api, op, params>>, out |-> out]
Start(k) == <<"start", k>>
End(k) == <<"end", k>>

\* an exception leaves run_pipeline: nothing after the raising statement runs
Raised == pc' = "aborted"

\* ------------------------------------------------------------------------
\* Step 1 (main.py 45-51): search_corp_code
\*   E.master: the corp-code master is in memory or on disk ("cached"), or
\*             is downloaded ("ok"), or the download raises ("raise")
\*   E.corp:   whether a company matches the name
\* ------------------------------------------------------------------------

\* an entry of the corp-code table (dart_api.py 44-48)
CorpA == [corp_code |-> <<"0", "1">>, stock_code |-> <<>>, corp_name |-> <<"Q">>]

\* a faulty Step 1 without the early return
SearchCorpCodeNoReturn(found) == "company_info"

\* line 47-49: `if not corp: return`
AfterSearchCorpCode(found) == IF found THEN "company_info" ELSE "not_found"

Step1(E) ==
    /\ pc = "step1"
    /\ \E m \in E.master, found \in E.corp :
          /\ requests' = IF m = "cached" THEN requests
                         ELSE Append(requests, Req("dart", "corpCode", <<>>, m))
          /\ IF m = "raise"
             THEN Raised /\ steps' = steps \o <<Start(1)>> /\ UNCHANGED corp
             ELSE /\ corp' = IF found THEN Some(CorpA) ELSE None
                  /\ pc' = AfterSearchCorpCode(found)
                  /\ steps' = steps \o <<Start(1), End(1)>>
    /\ UNCHANGED <<lib, args, collected, step2_locals, page, step4_locals, analysis_report, written>>

\* ------------------------------------------------------------------------
\* Step 2 (main.py 56-120)
\* ------------------------------------------------------------------------

\* lines 59-62: get_company_info
GetCompanyInfo(E) ==
    /\ pc = "company_info"
    /\ steps' = steps \o <<Start(2)>>
    /\ \E out \in E.company :
          /\ requests' = Append(requests, Req("dart", "company", <<>>, out))
          /\ IF out = "raise" THEN Raised /\ UNCHANGED collected
             ELSE /\ pc' = "search_filings"
                  /\ collected' = IF out = "ok"
                                  THEN Update(collected, [company_info |-> [status |-> "000"]])
                                  ELSE collected
    /\ UNCHANGED <<lib, args, corp, step2_locals, page, step4_locals, analysis_report, written>>

\* lines 65-95: search_filings and the choice of the filing
SearchFilings(E) ==
    /\ pc = "search_filings"
    /\ \E out \in E.list :
          /\ requests' = Append(requests, Req("dart", "list", <<>>, out))
          /\ IF out = "raise" THEN Raised /\ UNCHANGED <<collected, filings, rcept_no>>
             ELSE \E fs \in (IF out = "ok" THEN E.filings ELSE {<<>>}) :
                  /\ pc' = "equity"
                  /\ filings' = fs
                  /\ rcept_no' = ChooseRceptNo(fs)
                  /\ collected' = IF fs # <<>>
                                  THEN Update(collected, "_invest_doc_rcept_no" :> InvestDoc(fs))
                                  ELSE collected
    /\ UNCHANGED <<lib, args, corp, fin_pos, fin_raw, page, step4_locals, analysis_report, written, steps>>

\* line 106: the f-string formats sec.get('count') with ',' whenever the price is
\* truthy; format(None, ',') raises TypeError
PrintOfferingRaises(offering) ==
    /\ offering.securities # <<>>
    /\ LET sec == offering.securities[1]
       IN  /\ sec.offering_price # None /\ sec.offering_price # Some(0)
           /\ sec.count = None

\* lines 98-106: get_equity_registration and parse_equity_registration
GetEquityRegistration(E) ==
    /\ pc = "equity"
    /\ \E out \in E.equity :
          /\ requests' = Append(requests, Req("dart", "estkRs", <<>>, out))
          /\ CASE out = "raise" -> Raised /\ UNCHANGED collected
               [] out = "fail" -> pc' = "financials" /\ UNCHANGED collected
               [] out = "ok" ->
                    \E data \in E.equityData :
                       LET offering == parse_equity_registration(data)
                       IN  /\ collected' = Update(collected, [offering |-> offering])
                           /\ IF PrintOfferingRaises(offering) THEN Raised
                              ELSE pc' = "financials"
    /\ UNCHANGED <<lib, args, corp, step2_locals, page, step4_locals, analysis_report, written, steps>>

\* lines 111-114: `if fin_raw:` build the summary
WithFinancials(coll, raw) ==
    IF DOMAIN raw # {}
    THEN Update(coll, [financials |-> calc_growth_rates(build_financial_summary(raw))])
    ELSE coll

\* a faulty loop that asks again for the report that gave nothing
NextFinPosRetry(pos, got) ==
    IF ~got THEN pos
    ELSE IF pos[1] < Len(Years) THEN <<pos[1] + 1, 1>>
    ELSE <<0, 0>>

\* dart_api.py 237-249: the position after a request; <<0, 0>> when the loop is over
NextFinPos(pos, got) ==
    IF ~got /\ pos[2] < Len(ReprtCodes) THEN <<pos[1], pos[2] + 1>>
    ELSE IF pos[1] < Len(Years) THEN <<pos[1] + 1, 1>>
    ELSE <<0, 0>>

\* one get_financials request of get_financials_multi_year (dart_api.py 205-250);
\* the last one is followed by main.py 111-120
GetFinancials(E) ==
    /\ pc = "financials"
    /\ \E out \in (IF fin_pos[2] = 1 THEN E.finAnnual ELSE E.finInterim) :
          /\ requests' = Append(requests,
                 Req("dart", "fnlttSinglAcnt", <<Years[fin_pos[1]], ReprtCodes[fin_pos[2]]>>, out))
          /\ IF out = "raise"
             THEN Raised /\ UNCHANGED <<collected, fin_pos, fin_raw, steps>>
             ELSE \E items \in (IF out = "ok" THEN E.finItems ELSE {<<>>}) :
                  LET got == items # <<>>
                      raw == IF got THEN Update(fin_raw, Years[fin_pos[1]] :> items) ELSE fin_raw
                      pos == NextFinPos(fin_pos, got)
                  IN  /\ fin_raw' = raw
                      /\ fin_pos' = pos
                      /\ IF pos = <<0, 0>>
                         THEN /\ collected' = WithFinancials(collected, raw)
                              /\ steps' = steps \o <<End(2)>>
                              /\ pc' = "step3"
                         ELSE UNCHANGED <<collected, steps, pc>>
    /\ UNCHANGED <<lib, args, corp, filings, rcept_no, page, step4_locals, analysis_report, written>>

\* ------------------------------------------------------------------------
\* Step 3 (main.py 125-141): the 38.co.kr crawl
\* ------------------------------------------------------------------------

\* a faulty except clause that runs the crawl again
CrawlFailureRetries == "step3"

\* lines 128-130: the except clause sets crawler_data = None and the run goes on
AfterCrawlFailure == "step4"

\* a faulty Step 3 without the `if crawler_data:` guard of line 131
WithCrawlerDataAlways(coll, crawler_data) ==
    LET data == IF crawler_data = None THEN EmptyDict ELSE crawler_data[1]
        c1 == Update(coll, [crawler_data |-> data])
    IN  IF crawler_data # None /\ "offering" \in DOMAIN coll
        THEN Update(c1, [offering |-> merge_offering_data(coll.offering, crawler_data)])
        ELSE c1

\* lines 131-141: crawler_data is None or Some(dict)
WithCrawlerData(coll, crawler_data) ==
    IF crawler_data # None /\ DOMAIN crawler_data[1] # {}
    THEN LET c1 == Update(coll, [crawler_data |-> crawler_data[1]])
         IN  IF "offering" \in DOMAIN coll
             THEN Update(c1, [offering |-> merge_offering_data(coll.offering, crawler_data)])
             ELSE c1
    ELSE coll

\* crawler_38.py 78-109: one page of get_demand_forecast_list; a raise leaves
\* search_by_name and is caught in run_pipeline
FetchListPage(E) ==
    /\ pc = "step3"
    /\ \E out \in E.page :
          /\ requests' = Append(requests, Req("38", "list", <<page>>, out))
          /\ IF out = "raise"
             THEN /\ pc' = AfterCrawlFailure
                  /\ collected' = WithCrawlerData(collected, None)
                  /\ steps' = steps \o (IF page = 1 THEN <<Start(3)>> ELSE <<>>) \o <<End(3)>>
                  /\ page' = 1
             ELSE /\ pc' = IF page < Pages THEN "step3" ELSE "crawl_match"
                  /\ page' = IF page < Pages THEN page + 1 ELSE 1
                  /\ steps' = steps \o (IF page = 1 THEN <<Start(3)>> ELSE <<>>)
                  /\ UNCHANGED collected
    /\ UNCHANGED <<lib, args, corp, step2_locals, step4_locals, analysis_report, written>>

\* crawler_38.py 207-216: the result built from the matching list item
ListResult(item) ==
    [institutional_competition |-> GetOr(item, "competition_rate", <<>>),
     lockup_commitment |-> GetOr(item, "commitment_rate", <<>>),
     confirmed_price |-> GetOr(item, "confirmed_price", <<>>),
     offering_price_range |-> GetOr(item, "offering_price_range", <<>>),
     demand_forecast_date |-> GetOr(item, "demand_date", <<>>),
     lead_underwriter |-> GetOr(item, "underwriter", <<>>),
     first_price |-> GetOr(item, "first_price", <<>>),
     list_info |-> item]

\* crawler_38.py 223-225
DetailKeys ==
    {"subscription_date", "listing_date", "institutional_allocation", "retail_allocation",
     "employee_allocation", "offering_shares", "total_shares"}

\* crawler_38.py 221-227: the detail fields that are present and not empty
WithDetail(result, detail) ==
    Update(result, [k \in {d \in DetailKeys : d \in DOMAIN detail /\ Truthy(detail[d])} |-> detail[k]])

\* crawler_38.py 202-234: the match in the list and the detail page, then
\* main.py 131-141.  E.match: None or Some(list item); a raise of the detail
\* page is caught inside search_by_name
SearchByName(E) ==
    /\ pc = "crawl_match"
    /\ \E m \in E.match :
          IF m = None
          THEN /\ collected' = WithCrawlerData(collected, None)
               /\ UNCHANGED requests
          ELSE \E out \in E.detail :
               /\ requests' = Append(requests, Req("38", "detail", <<>>, out))
               /\ \E detail \in (IF out = "ok" THEN E.detailData ELSE {EmptyDict}) :
                     collected' = WithCrawlerData(collected, Some(WithDetail(ListResult(m[1]), detail)))
    /\ pc' = "step4"
    /\ steps' = steps \o <<End(3)>>
    /\ UNCHANGED <<lib, args, corp, step2_locals, page, step4_locals, analysis_report, written>>

\* ------------------------------------------------------------------------
\* Step 4 (main.py 146-173): download of the filing and LLM parsing.
\* An LLM answer is modelled by the shape _extract_json makes of it:
\*   "None" (no JSON found), "[]", "{}", "list", "dict" (not empty)
\* E.jsonList: the answers to the prompts that ask for a JSON array (lock-up
\* schedule, financial statements); E.jsonDict: the answers to the prompts
\* that ask for a JSON object (business, valuation summary, peers)
\* ------------------------------------------------------------------------

JsonTruthy(j) == j \in {"list", "dict"}

\* line 146
HasFinancials(coll) == "financials" \in DOMAIN coll /\ coll.financials # <<>>

\* a faulty guard of Step 4 that forgets the skip flag
RunsStep4IgnoringSkip(skip, rno) == rno # None

\* line 147
RunsStep4(skip, rno) == ~skip /\ rno # None

\* lines 147-173 up to download_document (dart_api.py 258-289).
\*   E.download: "cached" (files already there, no request), "ok", "fail"
\*   (status not 200, a short body or no ZIP) or "raise"
Step4(E) ==
    /\ pc = "step4"
    /\ has_financials' = HasFinancials(collected)
    /\ IF RunsStep4(skip_filing, rcept_no)
       THEN \E out \in E.download :
            /\ requests' = IF out = "cached" THEN requests
                           ELSE Append(requests, Req("dart", "document", rcept_no, out))
            /\ CASE out = "raise" -> Raised /\ steps' = steps \o <<Start(4)>>
                 [] out = "fail" -> pc' = "step5" /\ steps' = steps \o <<Start(4), End(4)>>
                 [] OTHER -> pc' = "load_html" /\ steps' = steps \o <<Start(4)>>
       ELSE pc' = "step5" /\ UNCHANGED <<requests, steps>>
    /\ UNCHANGED <<lib, args, corp, collected, step2_locals, page, parsed, valuation_summary,
                   analysis_report, written>>

\* `for item in x: item.get(...)` over an LLM value: a dict yields its keys, which
\* are strs and have no get
ItemLoopRaises(shape) == shape = "dict"

\* main.py 154-167: collected.update(parsed) and the filing fallback of the
\* financials; TRUE in the second component when _convert_filing_financials raises
AfterParse(coll, res, hasfin) ==
    LET c1 == Update(coll, res)
    IN  IF ~hasfin /\ "filing_financials" \in DOMAIN c1
        THEN IF ItemLoopRaises(c1.filing_financials.shape) THEN <<c1, TRUE>>
             ELSE LET fin_summary == convert_filing_financials(c1.filing_financials.items)
                  IN  IF fin_summary # <<>>
                      THEN <<Update(c1, [financials |-> fin_summary]), FALSE>>
                      ELSE <<c1, FALSE>>
        ELSE <<c1, FALSE>>

\* the end of Step 4 once parse_full_filing has returned res
FinishStep4(res) ==
    LET after == AfterParse(collected, res, has_financials)
    IN  /\ collected' = after[1]
        /\ parsed' = res
        /\ IF after[2] THEN Raised /\ UNCHANGED steps
           ELSE pc' = "step5" /\ steps' = steps \o <<End(4)>>

\* llm_parser.py 465-468: load_filing_html; an empty text ends the parse
LoadFilingHtml(E) ==
    /\ pc = "load_html"
    /\ \E html \in E.html :
          IF html = "empty" THEN FinishStep4(EmptyDict)
          ELSE pc' = "lockup" /\ UNCHANGED <<collected, parsed, steps>>
    /\ UNCHANGED <<lib, args, corp, step2_locals, page, has_financials, valuation_summary,
                   analysis_report, written, requests>>

\* llm_parser.py 139-190 and 475-478: extract_lockup_schedule
ExtractLockup(E) ==
    /\ pc = "lockup"
    /\ \E found \in E.section :
          IF ~found THEN pc' = "business" /\ UNCHANGED <<parsed, requests>>
          ELSE \E out \in E.llm :
               /\ requests' = Append(requests, Req("llm", "lockup", <<>>, out))
               /\ IF out = "raise" THEN Raised /\ UNCHANGED parsed
                  ELSE \E j \in E.jsonList :
                       /\ pc' = "business"
                       /\ parsed' = IF JsonTruthy(j) THEN Update(parsed, [lockup_schedule |-> j])
                                    ELSE parsed
    /\ UNCHANGED <<lib, args, corp, collected, step2_locals, page, has_financials, valuation_summary,
                   analysis_report, written, steps>>

\* llm_parser.py 198-245 and 481-484: extract_business_summary
ExtractBusiness(E) ==
    /\ pc = "business"
    /\ \E found \in E.section :
          IF ~found THEN pc' = "valuation" /\ UNCHANGED <<parsed, requests>>
          ELSE \E out \in E.llm :
               /\ requests' = Append(requests, Req("llm", "business", <<>>, out))
               /\ IF out = "raise" THEN Raised /\ UNCHANGED parsed
                  ELSE \E j \in E.jsonDict :
                       /\ pc' = "valuation"
                       /\ parsed' = IF JsonTruthy(j) THEN Update(parsed, [business |-> j])
                                    ELSE parsed
    /\ UNCHANGED <<lib, args, corp, collected, step2_locals, page, has_financials, valuation_summary,
                   analysis_report, written, steps>>

\* llm_parser.py 274-303: pass 1 of extract_peer_valuation
ExtractValuationSummary(E) ==
    /\ pc = "valuation"
    /\ \E found \in E.section :
          IF ~found THEN pc' = "peers" /\ valuation_summary' = "{}" /\ UNCHANGED requests
          ELSE \E out \in E.llm :
               /\ requests' = Append(requests, Req("llm", "valuation", <<>>, out))
               /\ IF out = "raise" THEN Raised /\ UNCHANGED valuation_summary
                  ELSE \E j \in E.jsonDict :
                       /\ pc' = "peers"
                       /\ valuation_summary' = IF JsonTruthy(j) THEN j ELSE "{}"
    /\ UNCHANGED <<lib, args, corp, collected, step2_locals, page, has_financials, parsed,
                   analysis_report, written, steps>>

\* llm_parser.py 365-380: what extract_peer_valuation does for the pass-1 summary
\* and the pass-2 answer: it raises (item assignment on a list), returns None
\* (value <<>>) or returns the valuation (value <<v>>)
PeerValuation(summary, peer_data) ==
    LET peers == IF peer_data \in {"list", "dict"} THEN "list" ELSE "[]"
        average == peer_data = "dict"
    IN  IF average /\ summary = "list" THEN [raises |-> TRUE, value |-> None]
        ELSE IF summary = "{}" /\ ~average /\ peers = "[]" THEN [raises |-> FALSE, value |-> None]
        ELSE IF summary = "list" THEN [raises |-> TRUE, value |-> None]
        ELSE [raises |-> FALSE,
              value |-> Some([summary |-> summary, average_peer_per |-> average, peers |-> peers])]

\* a faulty call that passes has_financials where its negation is meant
NeedFinancialsInverted(hasfin) == hasfin

\* a faulty parse that always extracts the financial statements
NeedFinancialsAlways(hasfin) == TRUE

\* llm_parser.py 492: `if need_financials:`; main.py 153: need_financials=not has_financials
NeedFinancials(hasfin) == ~hasfin

\* llm_parser.py 307-380 and 487-490: pass 2 of extract_peer_valuation.  The
\* answer "dict" holds peers and an average_per, "list" is a bare list of peers
ExtractPeers(E) ==
    /\ pc = "peers"
    /\ \E peer_section \in E.section, per_section \in E.section :
          \E out \in (IF peer_section \/ per_section THEN E.llm ELSE {"none"}) :
          /\ requests' = IF out = "none" THEN requests
                         ELSE Append(requests, Req("llm", "peers", <<>>, out))
          /\ IF out = "raise" THEN Raised /\ UNCHANGED <<collected, parsed, steps>>
             ELSE \E j \in (IF out = "none" THEN {"None"} ELSE E.jsonDict) :
                  LET valuation == PeerValuation(valuation_summary, j)
                      res == IF valuation.value # None
                             THEN Update(parsed, [valuation |-> valuation.value[1]])
                             ELSE parsed
                  IN  IF valuation.raises THEN Raised /\ UNCHANGED <<collected, parsed, steps>>
                      ELSE IF NeedFinancials(has_financials)
                      THEN pc' = "filing_financials" /\ parsed' = res /\ UNCHANGED <<collected, steps>>
                      ELSE FinishStep4(res)
    /\ UNCHANGED <<lib, args, corp, step2_locals, page, has_financials, valuation_summary,
                   analysis_report, written>>

\* llm_parser.py 388-450 and 492-499: extract_financials_from_filing, then
\* main.py 154-167.  A "list" answer is a list of items drawn from E.filingItems
ExtractFinancials(E) ==
    /\ pc = "filing_financials"
    /\ \E found \in E.section :
          IF ~found THEN FinishStep4(parsed) /\ UNCHANGED requests
          ELSE \E out \in E.llm :
               /\ requests' = Append(requests, Req("llm", "financials", <<>>, out))
               /\ IF out = "raise" THEN Raised /\ UNCHANGED <<collected, parsed, steps>>
                  ELSE \E j \in E.jsonList :
                       \E fin \in (IF j = "list" THEN E.filingItems ELSE {<<>>}) :
                       FinishStep4(IF JsonTruthy(j)
                                   THEN Update(parsed, [filing_financials |-> [shape |-> j, items |-> fin]])
                                   ELSE parsed)
    /\ UNCHANGED <<lib, args, corp, step2_locals, page, has_financials, valuation_summary,
                   analysis_report, written>>

\* ------------------------------------------------------------------------
\* Step 5 (main.py 178-184): generate_analysis
\* ------------------------------------------------------------------------

\* line 178
RunsStep5(skip) == ~skip

\* E.analysis: the LLM answers with a text ("text"), an empty text ("empty")
\* or the call raises
Step5(E) ==
    /\ pc = "step5"
    /\ IF RunsStep5(skip_analysis)
       THEN \E out \in E.analysis :
            /\ requests' = Append(requests,
                   Req("llm", "analysis", <<>>, IF out = "raise" THEN "raise" ELSE "ok"))
            /\ IF out = "raise"
               THEN Raised /\ steps' = steps \o <<Start(5)>> /\ UNCHANGED <<collected, analysis_report>>
               ELSE LET report == IF out = "text" THEN "REPORT" ELSE ""
                    IN  /\ analysis_report' = report
                        /\ collected' = Update(collected, [analysis_report |-> report])
                        /\ steps' = steps \o <<Start(5), End(5)>>
                        /\ pc' = "step6"
       ELSE /\ analysis_report' = ""
            /\ pc' = "step6"
            /\ UNCHANGED <<collected, requests, steps>>
    /\ UNCHANGED <<lib, args, corp, step2_locals, page, step4_locals, written>>

\* ------------------------------------------------------------------------
\* Step 6 (main.py 189-217): the three output files
\* ------------------------------------------------------------------------

\* a faulty Step 6 that always writes the markdown report
WritesReportAlways(report) == TRUE

\* line 192: `if analysis_report:`
WritesReport(report) == report # ""

\* report_writer.py 46-56 and excel_writer.py 147-164 loop over the lock-up schedule
LockupLoopRaises(coll) ==
    "lockup_schedule" \in DOMAIN coll /\ ItemLoopRaises(coll.lockup_schedule)

\* lines 192-193: save_report
SaveReport ==
    /\ pc = "step6"
    /\ steps' = steps \o <<Start(6)>>
    /\ IF WritesReport(analysis_report)
       THEN IF LockupLoopRaises(collected) THEN Raised /\ UNCHANGED written
            ELSE pc' = "excel" /\ written' = written \cup {"md"}
       ELSE pc' = "excel" /\ UNCHANGED written
    /\ UNCHANGED <<lib, args, corp, collected, step2_locals, page, step4_locals, analysis_report, requests>>

\* line 196: generate_excel
GenerateExcel ==
    /\ pc = "excel"
    /\ IF LockupLoopRaises(collected) THEN Raised /\ UNCHANGED written
       ELSE pc' = "raw_data" /\ written' = written \cup {"xlsx"}
    /\ UNCHANGED <<lib, args, corp, collected, step2_locals, page, step4_locals, analysis_report,
                   steps, requests>>

\* lines 199-217: save_raw_data, then `return collected`
SaveRawData ==
    /\ pc = "raw_data"
    /\ pc' = "done"
    /\ written' = written \cup {"json"}
    /\ steps' = steps \o <<End(6)>>
    /\ UNCHANGED <<lib, args, corp, collected, step2_locals, page, step4_locals, analysis_report, requests>>

\* ------------------------------------------------------------------------
\* The run
\* ------------------------------------------------------------------------

Next(E) ==
    \/ Step1(E)
    \/ GetCompanyInfo(E)
    \/ SearchFilings(E)
    \/ GetEquityRegistration(E)
    \/ GetFinancials(E)
    \/ FetchListPage(E)
    \/ SearchByName(E)
    \/ Step4(E)
    \/ LoadFilingHtml(E)
    \/ ExtractLockup(E)
    \/ ExtractBusiness(E)
    \/ ExtractValuationSummary(E)
    \/ ExtractPeers(E)
    \/ ExtractFinancials(E)
    \/ Step5(E)
    \/ SaveReport
    \/ GenerateExcel
    \/ SaveRawData

\* ------------------------------------------------------------------------
\* Answers of the outside world used by the specifications
\* ------------------------------------------------------------------------

TxtPrice == <<"5", "5", ",", "0", "0", "0", "W">>
TxtShares == <<"2", ",", "4", "7", "0", ",", "0", "0", "0", "J">>
TxtDash == <<"-">>
TxtDate == <<"2", "0", "2", "5", ".", "1", "2", ".", "0", "1">>
TxtRate == <<"2", "3", "1", ".", "8", "7">>

SecFull == [stksen |-> <<"Q">>, stkcnt |-> TxtShares, slprc |-> TxtPrice]
SecNoCount == [stksen |-> <<"Q">>, stkcnt |-> TxtDash, slprc |-> TxtPrice]
SecNoPrice == [stksen |-> <<"Q">>, stkcnt |-> TxtShares, slprc |-> TxtDash]

\* what get_equity_registration returns (dart_api.py 174-197)
EquityResult(general, securities) ==
    [general |-> general, securities |-> securities, underwriters |-> <<>>,
     fund_usage |-> <<>>, sellers |-> <<>>]

EquityShapes ==
    { EquityResult(<<[sbd |-> TxtDate]>>, <<SecFull>>),
      EquityResult(<<>>, <<SecNoCount>>),
      EquityResult(<<>>, <<SecNoPrice>>),
      EquityResult(<<>>, <<>>) }

FinItemsA ==
    << [fs_div |-> "CFS", account_nm |-> "ACC_revenue", thstrm_amount |-> <<"1", ",", "2", "5", "0">>],
       [fs_div |-> "OFS", account_nm |-> "ACC_revenue", thstrm_amount |-> <<"9", "0", "0">>],
       [fs_div |-> "CFS", account_nm |-> "ACC_other", thstrm_amount |-> <<"7">>] >>

FilingItemsA ==
    << [year |-> <<"2", "0", "2", "4", ".", "1", "Q">>, revenue |-> Some(30)],
       [year |-> Y2023, revenue |-> Some(100), net_income |-> Some(-20)],
       [year |-> Y2024, revenue |-> Some(150), net_income |-> Some(10)] >>

ListItemA ==
    [name |-> <<"Q">>, no |-> <<"1">>, demand_date |-> TxtDate, offering_price_range |-> TxtPrice,
     confirmed_price |-> TxtPrice, first_price |-> <<>>, competition_rate |-> TxtRate,
     commitment_rate |-> <<>>, underwriter |-> <<"H">>]

DetailA == [listing_date |-> TxtDate, subscription_date |-> TxtDate, total_shares |-> <<>>]

FilingsA == MkFilings(<<{REG}, {AMENDED, REG}, {PROSPECTUS}>>)

Outcomes == {"ok", "fail", "raise"}

\* The whole pipeline: every call may raise, the structured data vary in shape,
\* the filing parse finds its sections.
EnvMain ==
    [master |-> {"cached"}, corp |-> BOOLEAN,
     company |-> {"ok", "raise"},
     list |-> Outcomes, filings |-> {FilingsA},
     equity |-> Outcomes, equityData |-> EquityShapes \ {EquityResult(<<>>, <<>>)},
     finAnnual |-> Outcomes, finInterim |-> {"fail", "raise"}, finItems |-> {FinItemsA},
     page |-> {"ok", "raise"}, match |-> {None, Some(ListItemA)},
     detail |-> {"ok"}, detailData |-> {DetailA},
     download |-> {"ok", "fail", "raise"}, html |-> {"text", "empty"},
     section |-> {TRUE}, llm |-> {"ok", "raise"},
     jsonList |-> {"None", "list", "dict"}, jsonDict |-> {"None", "dict"},
     filingItems |-> {FilingItemsA},
     analysis |-> {"text", "empty", "raise"}]

Spec == Init /\ [][Next(EnvMain)]_vars

\* A run in which every call succeeds and every answer is well formed.
EnvPlain ==
    [master |-> {"cached"}, corp |-> {TRUE},
     company |-> {"ok"},
     list |-> {"ok"}, filings |-> {FilingsA},
     equity |-> {"ok"}, equityData |-> {EquityResult(<<[sbd |-> TxtDate]>>, <<SecFull>>)},
     finAnnual |-> {"ok", "fail"}, finInterim |-> {"fail"}, finItems |-> {FinItemsA},
     page |-> {"ok"}, match |-> {Some(ListItemA)},
     detail |-> {"ok"}, detailData |-> {DetailA},
     download |-> {"ok"}, html |-> {"text"},
     section |-> {TRUE}, llm |-> {"ok"}, jsonList |-> {"list"}, jsonDict |-> {"dict"},
     filingItems |-> {FilingItemsA},
     analysis |-> {"text"}]

\* Every list of filings search_filings can return, up to MaxFilings.
EnvFilings ==
    [EnvPlain EXCEPT !.list = {"ok", "fail"}, !.filings = AllFilingLists]

\* Every outcome of every external request.
EnvRequests ==
    [EnvPlain EXCEPT !.master = {"ok", "raise"}, !.corp = BOOLEAN,
                     !.company = Outcomes, !.list = Outcomes, !.equity = Outcomes,
                     !.finAnnual = Outcomes, !.finInterim = Outcomes,
                     !.page = {"ok", "raise"},
                     !.detail = {"ok", "raise"},
                     !.download = {"ok", "fail", "raise"},
                     !.llm = {"ok", "raise"}, !.analysis = {"text", "raise"}]

\* Every way the filing parse can go: sections found or not, every answer shape.
EnvParse ==
    [EnvPlain EXCEPT !.download = {"cached", "ok"}, !.html = {"text", "empty"},
                     !.section = BOOLEAN, !.llm = {"ok", "raise"},
                     !.jsonList = {"None", "[]", "{}", "list", "dict"},
                     !.jsonDict = {"None", "[]", "{}", "list", "dict"}]

SpecFilings == Init /\ [][Next(EnvFilings)]_vars
SpecRequests == Init /\ [][Next(EnvRequests)]_vars
SpecParse == Init /\ [][Next(EnvParse)]_vars

\* ------------------------------------------------------------------------
\* Properties of a run
\* ------------------------------------------------------------------------

Started(k) == \E i \in 1..Len(steps) : steps[i] = Start(k)
Finished(k) == \E i \in 1..Len(steps) : steps[i] = End(k)
LastEvent == steps[Len(steps)]

Failed(r) == r.out \in {"fail", "raise"}
SomeRaised == \E i \in 1..Len(requests) : requests[i].out = "raise"
Issued(ops) == \E i \in 1..Len(requests) : requests[i].key[2] \in ops
SameKey(r, q) == r.key[1] = q.key[1] /\ r.key[2] = q.key[2] /\ r.key[3] = q.key[3]

IsLLM(r) == r.key[1] = "llm"
LLMCalls == Len(SelectSeq(requests, IsLLM))
CallsOf(op) == Cardinality({i \in 1..Len(requests) : requests[i].key[2] = op})

ParsePositions == {"load_html", "lockup", "business", "valuation", "peers", "filing_financials"}
ExtractionOps == {"lockup", "business", "valuation", "peers", "financials"}
FilingKeys == {"lockup_schedule", "business", "valuation", "filing_financials"}
AllOutputs == {"md", "xlsx", "json"}

\* C1: the steps run as one linear sequence in the order 1..6: every step
\* starts at most once and after every step that started before it has a
\* smaller number, the event after the start of a step is the end of that
\* step (no other step starts in between), and the code of a step runs only
\* between the start and the end of that step.
C1_LinearSteps ==
    /\ \A i \in 1..Len(steps) : steps[i][2] \in 1..6
    /\ \A i, j \in 1..Len(steps) :
          i < j /\ steps[i][1] = "start" /\ steps[j][1] = "start" => steps[i][2] < steps[j][2]
    /\ \A i \in 1..Len(steps) :
          /\ steps[i][1] = "start" /\ i < Len(steps) => steps[i + 1] = End(steps[i][2])
          /\ steps[i][1] = "end" => i > 1 /\ steps[i - 1] = Start(steps[i][2])
    /\ pc \in {"search_filings", "equity", "financials"} => LastEvent = Start(2)
    /\ pc = "crawl_match" => LastEvent = Start(3)
    /\ pc \in ParsePositions => LastEvent = Start(4)
    /\ pc \in {"excel", "raw_data"} => LastEvent = Start(6)
    /\ pc = "done" => LastEvent = End(6)

\* a run that went through all six steps
C1_Witness == pc = "done" /\ Len(steps) = 12 /\ \A k \in 1..6 : Started(k) /\ Finished(k)

\* C2: a run for a company that was found, with no skip flag and in which no
\* external call raised, ends with the markdown report, the Excel workbook and
\* the JSON dump written.
C2_AllOutputsWritten ==
    (pc \in {"done", "aborted"} /\ corp # None /\ ~skip_filing /\ ~skip_analysis /\ ~SomeRaised)
        => written = AllOutputs

\* a complete run: no skip flag, the filing was downloaded, the run returned
CompleteRun ==
    /\ pc = "done" /\ ~skip_filing /\ ~skip_analysis
    /\ Started(4)
    /\ \A i \in 1..Len(requests) : requests[i].key[2] = "document" => requests[i].out = "ok"

\* C3 as stated: a complete run calls the LLM four times.
C3_FourCalls == CompleteRun => LLMCalls = 4

\* C3 amended: a complete run calls the LLM between one and six times: once
\* for the analysis and, in the filing parse, at most once for each of the
\* lock-up schedule, the business summary, the valuation summary and the peer
\* table, and for the financial statements only when DART gave no financials.
\* With DART financials and every section found that is five calls.
C3_OneToSixCalls ==
    CompleteRun =>
        /\ LLMCalls \in 1..6
        /\ CallsOf("analysis") = 1
        /\ \A op \in ExtractionOps : CallsOf(op) <= 1
        /\ has_financials => CallsOf("financials") = 0
        /\ has_financials /\ Issued({"lockup"}) /\ Issued({"business"})
              /\ Issued({"valuation"}) /\ Issued({"peers"}) => LLMCalls = 5

\* a complete run without DART financials in which every section was found
C3_Witness == CompleteRun /\ ~has_financials /\ LLMCalls = 6

\* C4: a request that failed (an answer reporting a failure, or an exception)
\* is never issued again with the same parameters.  The history requests only
\* grows by appending, so the property is stated of the latest request of
\* every state against all the requests before it.
C4_NoRetry ==
    \A i \in 1..(Len(requests) - 1) :
        Failed(requests[i]) => ~SameKey(requests[i], requests[Len(requests)])

\* a run that went on to its end after a DART request and a crawl request failed
C4_Witness ==
    /\ pc = "done"
    /\ \E i \in 1..Len(requests) : requests[i].key[2] = "fnlttSinglAcnt" /\ requests[i].out = "fail"
    /\ \E i \in 1..Len(requests) : requests[i].key[1] = "38" /\ requests[i].out = "raise"

\* search_by_name raised: a page of the list raised (a raise of the detail page
\* is caught inside search_by_name)
CrawlRaised ==
    \E i \in 1..Len(requests) :
        requests[i].key[1] = "38" /\ requests[i].key[2] = "list" /\ requests[i].out = "raise"

Offering == IF "offering" \in DOMAIN collected THEN Some(collected.offering) ELSE None

\* C5: when search_by_name raises, the step in which it raises leaves
\* collected as it was and goes on to Step 4, and from then on collected has no
\* crawler_data key and collected['offering'] stays what Step 2 made it.
C5_CrawlFailureGoesOn ==
    [][CrawlRaised' =>
          /\ Offering' = Offering
          /\ "crawler_data" \notin DOMAIN collected'
          /\ ~CrawlRaised => pc' = "step4" /\ collected' = collected]_vars

\* a run that ended normally after the crawl raised, with an offering from Step 2
C5_Witness == CrawlRaised /\ pc = "done" /\ Offering # None /\ Started(4) /\ Started(5)

\* C6: when search_corp_code returns nothing, the run has returned: nothing
\* was collected, no request other than the load of the corp-code master was
\* issued, no output was written, and no further step is taken.
C6_NotFoundReturns ==
    /\ [](corp = None /\ Finished(1) =>
             /\ pc = "not_found"
             /\ collected = EmptyDict
             /\ written = {}
             /\ steps = <<Start(1), End(1)>>
             /\ \A i \in 1..Len(requests) : requests[i].key[2] = "corpCode")
    /\ [][pc # "not_found"]_vars

\* a run in which the company was not found
C6_Witness == corp = None /\ Finished(1) /\ pc = "not_found"

\* C7: with skip_filing, Step 4 never starts: no download, no filing parse, no
\* LLM extraction, and none of the keys of the filing parse in collected; a run
\* that returned went through Step 6 and, without skip_analysis, Step 5.
C7_SkipFiling ==
    skip_filing =>
        /\ ~Started(4)
        /\ pc \notin ParsePositions
        /\ ~Issued({"document"} \cup ExtractionOps)
        /\ FilingKeys \cap DOMAIN collected = {}
        /\ pc = "done" => Started(6) /\ (~skip_analysis => Started(5))

\* a run with skip_filing that had a filing to download and ran Steps 5 and 6
C7_Witness ==
    skip_filing /\ ~skip_analysis /\ rcept_no # None /\ pc = "done" /\ written = AllOutputs

\* C8: with skip_analysis, generate_analysis is never called, collected has
\* no analysis_report key and no markdown report is written, and a run that
\* returned has written the Excel workbook and the JSON dump.  In every run,
\* once Step 6 is past the report, the markdown report is written exactly when
\* the analysis text is not empty.
C8_SkipAnalysis ==
    /\ skip_analysis =>
          /\ ~Issued({"analysis"})
          /\ ~Started(5)
          /\ "analysis_report" \notin DOMAIN collected
          /\ "md" \notin written
          /\ pc = "done" => written = {"xlsx", "json"}
    /\ pc \in {"excel", "raw_data", "done"} => ("md" \in written <=> analysis_report # "")
    /\ "md" \in written => analysis_report # ""

\* a run with skip_analysis, after the filing was parsed, that returned
C8_Witness == skip_analysis /\ ~skip_filing /\ Started(4) /\ pc = "done"

\* the filings the claim calls eligible, and its two classes
Eligible(f) == ~Contains(f.report_nm, ISSUE_RESULT) /\ ~Contains(f.report_nm, TERMS_FIXED)
IsAmendedStatement(f) ==
    Contains(f.report_nm, REG) /\ Contains(f.report_nm, AMENDED) /\ Eligible(f)
IsOriginalStatement(f) ==
    Contains(f.report_nm, REG) /\ ~Contains(f.report_nm, AMENDED) /\ Eligible(f)
First(S) == CHOOSE i \in S : \A j \in S : i <= j
AmendedAt == {i \in 1..Len(filings) : IsAmendedStatement(filings[i])}
OriginalAt == {i \in 1..Len(filings) : IsOriginalStatement(filings[i])}
ExpectedFiling ==
    IF AmendedAt # {} THEN filings[First(AmendedAt)]
    ELSE IF OriginalAt # {} THEN filings[First(OriginalAt)]
    ELSE filings[1]

\* C9: of a non-empty list the filing chosen (and the only one downloaded) is
\* the earliest amended registration statement that is eligible, else the
\* earliest original eligible registration statement, else the first filing.
C9_FilingPriority ==
    /\ filings # <<>> => rcept_no = Some(ExpectedFiling.rcept_no)
    /\ \A i \in 1..Len(requests) :
          requests[i].key[2] = "document" => requests[i].key[3] = Some(ExpectedFiling.rcept_no)

\* the amended statement listed after the original one is the one downloaded
C9_Witness ==
    /\ Len(filings) = 2
    /\ IsOriginalStatement(filings[1]) /\ IsAmendedStatement(filings[2])
    /\ rcept_no = Some(filings[2].rcept_no)
    /\ Issued({"document"})

\* C10: the filing downloaded for the LLM parse is never an issuance-result
\* report nor a prospectus.
C10_NeverResultNorProspectus ==
    \A i \in 1..Len(requests) :
        requests[i].key[2] = "document" =>
            \A k \in 1..Len(filings) :
                Some(filings[k].rcept_no) = requests[i].key[3] =>
                    /\ ~Contains(filings[k].report_nm, ISSUE_RESULT)
                    /\ ~Contains(filings[k].report_nm, PROSPECTUS)

\* the financial summary Step 2 made of the DART answers (None when there were none)
DartSummary ==
    IF DOMAIN fin_raw # {} THEN Some(calc_growth_rates(build_financial_summary(fin_raw)))
    ELSE None

Step2Positions == {"step1", "company_info", "search_filings", "equity", "financials"}

\* C11: the filing parse goes on to extract the financial statements exactly
\* when Step 2 obtained no summary from DART, the LLM is never asked for them
\* otherwise, and a summary obtained from DART is collected['financials'] in
\* every state after Step 2, whatever the LLM answered.
C11_FilingFinancialsFallbackOnly ==
    /\ [](pc = "filing_financials" \/ Issued({"financials"}) => DartSummary = None)
    /\ [](pc \notin Step2Positions /\ DartSummary # None =>
             /\ "financials" \in DOMAIN collected
             /\ collected.financials = DartSummary[1]
             /\ "filing_financials" \notin DOMAIN collected)
    /\ [][pc = "peers" /\ pc' # "aborted" =>
             (pc' = "filing_financials" <=> DartSummary = None)]_vars

\* a run that parsed the filing with a DART summary and returned
C11_Witness ==
    /\ pc = "done" /\ DartSummary # None /\ Issued({"peers"})
    /\ collected.financials = DartSummary[1]

\* ------------------------------------------------------------------------
\* Direct calls of the library functions.  run_pipeline is not running
\* (pc = "lib"); call holds the arguments, then the result.
\* ------------------------------------------------------------------------

pipeline ==
    <<pc, skip_filing, skip_analysis, corp, collected, filings, rcept_no, fin_pos, fin_raw,
      page, has_financials, parsed, valuation_summary, analysis_report, written, steps, requests>>

PipelineIdle ==
    /\ pc = "lib"
    /\ skip_filing = FALSE
    /\ skip_analysis = FALSE
    /\ corp = None
    /\ collected = EmptyDict
    /\ filings = <<>>
    /\ rcept_no = None
    /\ fin_pos = <<1, 1>>
    /\ fin_raw = EmptyDict
    /\ page = 1
    /\ has_financials = FALSE
    /\ parsed = EmptyDict
    /\ valuation_summary = "{}"
    /\ analysis_report = ""
    /\ written = {}
    /\ steps = <<>>
    /\ requests = <<>>

CacheIdle == corp_code_cache = None /\ cache_file = None /\ io_log = <<>>

\* a call about to be made: after is the first argument, as yet untouched
Calling(fn, arguments) ==
    [fn |-> fn, args |-> arguments, result |-> None, after |-> arguments[1]]

\* ---- merge_offering_data (offering.py 105-132) ----

\* the keys search_by_name can put in its result (crawler_38.py 207-225)
CrawlerFields == Range(ExtraFields) \cup {"first_price", "offering_price_range"}

CrawlerDicts ==
    UNION {[S -> {<<>>, TxtDate}] : S \in {T \in SUBSET CrawlerFields : Cardinality(T) <= MaxCrawlerKeys}}

\* the offerings Step 2 can pass (main.py 100-101, 139)
OfferingInputs == {parse_equity_registration(d) : d \in EquityShapes}

\* offering.py 107: merged = dict(dart_data) is a copy, dart_data is left alone
MergeLeavesDartData(dart_data, crawler_data) == dart_data

InitMerge ==
    /\ PipelineIdle /\ CacheIdle
    /\ call \in {Calling("merge_offering_data", <<d, c>>) :
                    d \in OfferingInputs, c \in {None} \cup {Some(x) : x \in CrawlerDicts}}

CallMergeOfferingData ==
    /\ call.fn = "merge_offering_data" /\ call.result = None
    /\ call' = [call EXCEPT
                  !.result = Some(merge_offering_data(call.args[1], call.args[2])),
                  !.after = MergeLeavesDartData(call.args[1], call.args[2])]
    /\ UNCHANGED <<pipeline, corp_code_cache, cache_file, io_log>>

SpecMerge == InitMerge /\ [][CallMergeOfferingData]_vars

\* the fields of extra_fields that crawler_data (None or Some(dict)) holds, not empty
HeldFields(c) ==
    IF c = None THEN {}
    ELSE {f \in Range(ExtraFields) : f \in DOMAIN c[1] /\ c[1][f] # <<>>}

\* C12: the result of merge_offering_data keeps every key of dart_data with
\* its value, adds exactly the keys crawler_<field> of the listed fields that
\* crawler_data holds with a non-empty value (with that value), leaves
\* dart_data as it was, and equals dart_data when crawler_data is None or empty.
C12_MergeNonDestructive ==
    call.fn = "merge_offering_data" /\ call.result # None =>
        LET d == call.args[1]
            c == call.args[2]
            r == call.result[1]
        IN  /\ \A k \in DOMAIN d : k \in DOMAIN r /\ r[k] = d[k]
            /\ DOMAIN r \ DOMAIN d = {CrawlerKey(f) : f \in HeldFields(c)}
            /\ \A f \in HeldFields(c) : r[CrawlerKey(f)] = c[1][f]
            /\ call.after = d
            /\ (c = None \/ DOMAIN c[1] = {}) => r = d

\* a merge that took one field, left an empty one and ignored an unlisted key
C12_Witness ==
    /\ call.fn = "merge_offering_data" /\ call.result # None /\ call.args[2] # None
    /\ Cardinality(HeldFields(call.args[2])) = 1
    /\ \E k \in DOMAIN call.args[2][1] : k \notin HeldFields(call.args[2])
    /\ DOMAIN call.args[1] # {}

\* ---- search_corp_code (dart_api.py 70-91) over the table of _load_corp_codes ----

\* `a in b` for strs
IsSubstring(a, b) ==
    \E i \in 0..(Len(b) - Len(a)) : SubSeq(b, i + 1, i + Len(a)) = a

\* names over a two-letter alphabet; "" is the name of an item without corp_name
CorpNames == SeqsUpTo({"a", "b"}, MaxNameLen)

\* the <list> items of corp_codes.xml, names already stripped (dart_api.py 40-42);
\* the corp_code of an item is its place in the file
CorpItems(names) == [i \in 1..Len(names) |-> [corp_name |-> names[i], corp_code |-> i]]
AllCorpItems == {CorpItems(ns) : ns \in SeqsUpTo(CorpNames, MaxItems)}

\* dart_api.py 38-48: the dict codes.  order is the order of its keys (a key
\* keeps the place of its first insertion), entry its values (the last
\* item of a name wins); items without a name are left out
load_corp_codes(items) ==
    LET named == {i \in 1..Len(items) : items[i].corp_name # <<>>}
        firsts == {i \in named : \A j \in named : j < i => items[j].corp_name # items[i].corp_name}
        RECURSIVE Keys(_)
        Keys(i) == IF i > Len(items) THEN <<>>
                   ELSE (IF i \in firsts THEN <<items[i].corp_name>> ELSE <<>>) \o Keys(i + 1)
        last(n) == CHOOSE i \in named :
                       items[i].corp_name = n /\ \A j \in named : j > i => items[j].corp_name # n
    IN  [order |-> Keys(1),
         entry |-> [n \in {items[i].corp_name : i \in named} |->
                       [corp_code |-> items[last(n)].corp_code, stock_code |-> <<>>, corp_name |-> n]]]

\* a faulty search that goes straight to the substring matches
ExactMatchSkipped(codes, company_name) == FALSE

\* dart_api.py 78: `if company_name in codes`
ExactMatch(codes, company_name) == company_name \in DOMAIN codes.entry

\* dart_api.py 75-91 once the table is loaded: None or Some(entry)
search_corp_code(codes, company_name) ==
    IF ExactMatch(codes, company_name) THEN Some(codes.entry[company_name])
    ELSE LET HasName(k) == IsSubstring(company_name, k)
             matches == SelectSeq(codes.order, HasName)
         IN  IF matches # <<>> THEN Some(codes.entry[matches[1]]) ELSE None

InitSearch ==
    /\ PipelineIdle /\ CacheIdle
    /\ call \in {Calling("search_corp_code", <<items, name>>) :
                    items \in AllCorpItems, name \in CorpNames}

CallSearchCorpCode ==
    /\ call.fn = "search_corp_code" /\ call.result = None
    /\ call' = [call EXCEPT
                  !.result = Some(search_corp_code(load_corp_codes(call.args[1]), call.args[2]))]
    /\ UNCHANGED <<pipeline, corp_code_cache, cache_file, io_log>>

SpecSearch == InitSearch /\ [][CallSearchCorpCode]_vars

\* the places in the file of the named items whose name is, or contains, q
ExactAt(items, q) == {i \in 1..Len(items) : items[i].corp_name # <<>> /\ items[i].corp_name = q}
ContainingAt(items, q) ==
    {i \in 1..Len(items) : items[i].corp_name # <<>> /\ IsSubstring(q, items[i].corp_name)}

\* C13: search_corp_code returns an entry named company_name whenever the
\* table has one, whatever other names contain it; otherwise an entry of the
\* name of the first loaded item whose name contains company_name; and None
\* exactly when no name contains company_name.
C13_ExactThenSubstring ==
    call.fn = "search_corp_code" /\ call.result # None =>
        LET items == call.args[1]
            q == call.args[2]
            r == call.result[1]
            exact == ExactAt(items, q)
            containing == ContainingAt(items, q)
        IN  /\ exact # {} =>
                  /\ r # None /\ r[1].corp_name = q
                  /\ r[1].corp_code \in {items[i].corp_code : i \in exact}
            /\ exact = {} /\ containing # {} =>
                  /\ r # None
                  /\ r[1].corp_name = items[First(containing)].corp_name
                  /\ \E i \in containing : items[i].corp_name = r[1].corp_name
                                              /\ items[i].corp_code = r[1].corp_code
            /\ r = None <=> containing = {}

\* the exact name is found although a name loaded before it contains it
C13_Witness ==
    /\ call.fn = "search_corp_code" /\ call.result # None /\ call.result[1] # None
    /\ Len(call.args[1]) = 2
    /\ call.args[1][1].corp_name # call.args[2]
    /\ IsSubstring(call.args[2], call.args[1][1].corp_name)
    /\ call.args[1][2].corp_name = call.args[2]
    /\ call.result[1][1].corp_code = 2

\* ---- build_financial_summary and calc_growth_rates (financial.py 73-110) ----

\* items of a fnlttSinglAcnt answer (dart_api.py 218-225): consolidated and
\* separate, of two key accounts and of another account
FinItemKinds ==
    { [fs_div |-> "CFS", account_nm |-> "ACC_revenue", thstrm_amount |-> <<"1", ",", "2", "5", "0">>],
      [fs_div |-> "OFS", account_nm |-> "ACC_revenue", thstrm_amount |-> <<"9", "0", "0">>],
      [fs_div |-> "CFS", account_nm |-> "ACC_net_income", thstrm_amount |-> <<"-", "3", "0">>],
      [fs_div |-> "OFS", account_nm |-> "ACC_net_income", thstrm_amount |-> <<"-">>],
      [fs_div |-> "CFS", account_nm |-> "ACC_other", thstrm_amount |-> <<"7">>],
      [fs_div |-> "OFS", account_nm |-> "ACC_other", thstrm_amount |-> <<"7">>] }

\* what get_financials_multi_year returns (dart_api.py 236-250): a dict from the
\* years that gave data to their items, never an empty list
MultiYearInputs ==
    LET lists == SeqsUpTo(FinItemKinds, MaxFinItems) \ {<<>>}
    IN  UNION {[ys -> lists] : ys \in (SUBSET {Y2022, Y2024}) \ {{}}}

\* summaries as build_financial_summary makes them (financial.py 90-97): one
\* row a year, in ascending order of the years
SummaryInputs ==
    LET vals == {None, Some(0), Some(100), Some(-50)}
        row(y, rev, op, net) ==
            [year |-> y, total_assets |-> None, total_liabilities |-> None, total_equity |-> None,
             revenue |-> rev, operating_income |-> op, net_income |-> net, operating_cashflow |-> None]
        rows(y) == {row(y, rev, op, net) : rev \in vals, op \in {None, Some(7)}, net \in vals}
    IN  UNION {{pick \in [1..n -> UNION {rows(Years[k]) : k \in 1..n}] :
                    \A i \in 1..n : pick[i].year = Years[i]} : n \in 1..MaxRows}

InitFinancial ==
    /\ PipelineIdle /\ CacheIdle
    /\ \/ call \in {Calling("build_financial_summary", <<m>>) : m \in MultiYearInputs}
       \/ call \in {Calling("calc_growth_rates", <<su>>) : su \in SummaryInputs}

CallBuildFinancialSummary ==
    /\ call.fn = "build_financial_summary" /\ call.result = None
    /\ call' = [call EXCEPT !.result = Some(build_financial_summary(call.args[1]))]
    /\ UNCHANGED <<pipeline, corp_code_cache, cache_file, io_log>>

\* calc_growth_rates changes the rows in place and returns its argument (line 110)
CallCalcGrowthRates ==
    /\ call.fn = "calc_growth_rates" /\ call.result = None
    /\ call' = [call EXCEPT !.result = Some(calc_growth_rates(call.args[1])),
                            !.after = calc_growth_rates(call.args[1])]
    /\ UNCHANGED <<pipeline, corp_code_cache, cache_file, io_log>>

SpecFinancial == InitFinancial /\ [][CallBuildFinancialSummary \/ CallCalcGrowthRates]_vars

\* the items of a statement type that name a key account
KeyItemsAt(items, cfs) ==
    {k \in 1..Len(items) : /\ items[k].account_nm \in DOMAIN KEY_ACCOUNTS
                           /\ (items[k].fs_div = "CFS") <=> cfs}
Last(S) == CHOOSE i \in S : \A j \in S : j <= i

\* C14: build_financial_summary returns one row for every input year, in
\* ascending order of the years; the values of a row are the current amounts
\* of the consolidated items of its year when the year has consolidated items
\* of the key accounts, and of the separate items only when it has none; a
\* field without an item in the chosen statements is None.
C14_ConsolidatedPreferred ==
    call.fn = "build_financial_summary" /\ call.result # None =>
        LET my == call.args[1]
            r == call.result[1]
        IN  /\ Len(r) = Cardinality(DOMAIN my)
            /\ \A y \in DOMAIN my : \E i \in 1..Len(r) : r[i].year = y
            /\ \A i, j \in 1..Len(r) : i < j => DigitsValue(r[i].year) < DigitsValue(r[j].year)
            /\ \A i \in 1..Len(r) :
                  LET items == my[r[i].year]
                      chosen == IF KeyItemsAt(items, TRUE) # {} THEN KeyItemsAt(items, TRUE)
                                ELSE KeyItemsAt(items, FALSE)
                  IN  \A f \in Range(KeyFields) :
                         LET at == {k \in chosen : KEY_ACCOUNTS[items[k].account_nm] = f}
                         IN  r[i][f] = IF at = {} THEN None
                                       ELSE ParseAmount(Some(items[Last(at)].thstrm_amount))

\* two years given out of order; the later year has both statement types and
\* its revenue is the consolidated one
C14_Witness ==
    /\ call.fn = "build_financial_summary" /\ call.result # None
    /\ DOMAIN call.args[1] = {Y2022, Y2024}
    /\ KeyItemsAt(call.args[1][Y2024], TRUE) # {} /\ KeyItemsAt(call.args[1][Y2024], FALSE) # {}
    /\ KeyItemsAt(call.args[1][Y2022], TRUE) = {} /\ KeyItemsAt(call.args[1][Y2022], FALSE) # {}
    /\ call.result[1][2].revenue = Some(1250)
    /\ call.result[1][1].revenue = Some(900)

\* C15: calc_growth_rates gives a row after the first the key <field>_yoy =
\* (current - previous) / |previous| exactly when both values are present (not
\* None) and the previous one is not zero; the first row gets no yoy key and
\* no other key of a row changes.  (A rate is the pair numerator, denominator.)
C15_GrowthRates ==
    call.fn = "calc_growth_rates" /\ call.result # None =>
        LET su == call.args[1]
            r == call.result[1]
        IN  /\ Len(r) = Len(su)
            /\ \A i \in 1..Len(su) :
                  /\ \A k \in DOMAIN su[i] : k \in DOMAIN r[i] /\ r[i][k] = su[i][k]
                  /\ \A f \in Range(YoyFields) :
                        LET due == /\ i > 1
                                   /\ su[i][f] # None /\ su[i - 1][f] # None
                                   /\ su[i - 1][f][1] # 0
                        IN  IF due
                            THEN /\ YoyKey(f) \in DOMAIN r[i]
                                 /\ r[i][YoyKey(f)] = <<su[i][f][1] - su[i - 1][f][1],
                                                        Abs(su[i - 1][f][1])>>
                            ELSE YoyKey(f) \notin DOMAIN r[i]
                  /\ DOMAIN r[i] \subseteq DOMAIN su[i] \cup {YoyKey(f) : f \in Range(YoyFields)}

\* C16: every <field>_yoy stored in the row of year Y of collected['financials']
\* is the rate between the figure of year Y and the figure of year Y - 1.
C16_YoyIsYearOverYear ==
    "financials" \in DOMAIN collected =>
        LET fin == collected.financials
        IN  \A i \in 1..Len(fin) : \A f \in Range(YoyFields) :
               YoyKey(f) \in DOMAIN fin[i] =>
                  \E j \in 1..Len(fin) :
                     /\ DigitsValue(fin[j].year) = DigitsValue(fin[i].year) - 1
                     /\ fin[j][f] # None /\ fin[i][f] # None
                     /\ fin[i][YoyKey(f)] = <<fin[i][f][1] - fin[j][f][1], Abs(fin[j][f][1])>>

\* ---- _extract_section (llm_parser.py 84-131), the plain-text pass ----
\* An html is a str (a sequence of characters); indices are Python's, from 0.

\* llm_parser.py 114, 119, 120, 128
Lookback == 200
MinDigits == 3
TableWeight == 5
MinScore == 10

\* str.lower() on the characters the inputs hold
LowerStr(s) ==
    [i \in 1..Len(s) |-> CASE s[i] = "K" -> "k" [] s[i] = "L" -> "l" [] s[i] = "T" -> "t"
                           [] OTHER -> s[i]]

\* s.find(sub, from): the lowest index at or after from where sub starts, or -1
Find(s, sub, from) ==
    LET at == {i \in from..(Len(s) - Len(sub)) : \A k \in 1..Len(sub) : s[i + k] = sub[k]}
    IN  IF at = {} THEN -1 ELSE CHOOSE i \in at : \A j \in at : i <= j

\* lines 118-120: section.lower().count("<table") * 5 + len(findall(r"\d{3,}", section))
SectionScore(section) ==
    LET low == LowerStr(section)
        RECURSIVE Count(_)
        \* str.count: occurrences that do not overlap, from the left
        Count(from) == LET i == Find(low, <<"<", "t", "a", "b", "l", "e">>, from)
                       IN  IF i < 0 THEN 0 ELSE 1 + Count(i + 6)
        digit(i) == i < Len(section) /\ IsDigit(section[i + 1])
        RECURSIVE Runs(_)
        \* re.findall: from the left, the next index where MinDigits digits
        \* start, the match runs on to the last digit of the run
        Runs(from) ==
            LET at == {i \in from..(Len(section) - MinDigits) :
                          \A k \in 0..(MinDigits - 1) : digit(i + k)}
            IN  IF at = {} THEN 0
                ELSE LET i == CHOOSE a \in at : \A b \in at : a <= b
                         stop == CHOOSE e \in (i + MinDigits)..Len(section) :
                                    ~digit(e) /\ \A m \in i..(e - 1) : digit(m)
                     IN  1 + Runs(stop)
    IN  Count(0) * TableWeight + Runs(0)

\* a faulty comparison that lets a later window of the same score win
BetterScoreOrEqual(score, best_score) == score >= best_score

\* line 122: `if score > best_score`
BetterScore(score, best_score) == score > best_score

\* lines 105-126: the while loop over the occurrences of one keyword
RECURSIVE BestSection(_, _, _, _, _)
BestSection(html, kw, max_chars, start_pos, best) ==
    LET idx == Find(LowerStr(html), LowerStr(kw), start_pos)
    IN  IF idx < 0 THEN best
        ELSE LET start == IF idx - Lookback > 0 THEN idx - Lookback ELSE 0
                 end == IF idx + max_chars < Len(html) THEN idx + max_chars ELSE Len(html)
                 section == SubSeq(html, start + 1, end)
                 score == SectionScore(section)
             IN  BestSection(html, kw, max_chars, idx + Len(kw),
                             IF BetterScore(score, best.score)
                             THEN [section |-> section, score |-> score] ELSE best)

\* lines 103-131 for an html without a TITLE tag: the section of the first
\* keyword whose best section is not empty and scores more than MinScore
extract_section(html, keywords, max_chars) ==
    LET best(k) == BestSection(html, keywords[k], max_chars, 0, [section |-> <<>>, score |-> 0])
        good == {k \in 1..Len(keywords) : best(k).section # <<>> /\ best(k).score > MinScore}
    IN  IF good = {} THEN <<>> ELSE best(CHOOSE k \in good : \A j \in good : k <= j).section

\* htmls built of tokens: the two keywords in mixed case, a table tag in mixed
\* case, two table tags followed by a number, and a filler of FillerLen
\* characters
HtmlInputs ==
    LET text(t) == CASE t = "K" -> <<"K", "w">>
                     [] t = "L" -> <<"L", "z">>
                     [] t = "T" -> <<"<", "T", "a", "b", "l", "e">>
                     [] t = "G" -> <<"<", "T", "a", "b", "l", "e",
                                     "<", "t", "a", "b", "l", "e", "1", "2", "3", "4">>
                     [] t = "P" -> [i \in 1..FillerLen |-> "x"]
        RECURSIVE Render(_)
        Render(ts) == IF ts = <<>> THEN <<>> ELSE text(Head(ts)) \o Render(Tail(ts))
    IN  {Render(ts) : ts \in SeqsUpTo({"K", "L", "T", "G", "P"}, MaxTokens)}

InitSection ==
    /\ PipelineIdle /\ CacheIdle
    /\ call \in {Calling("_extract_section", <<html, <<<<"l", "z">>, <<"k", "w">>>>, max_chars>>) :
                    html \in HtmlInputs, max_chars \in {10, 120}}

CallExtractSection ==
    /\ call.fn = "_extract_section" /\ call.result = None
    /\ call' = [call EXCEPT
                  !.result = Some(extract_section(call.args[1], call.args[2], call.args[3]))]
    /\ UNCHANGED <<pipeline, corp_code_cache, cache_file, io_log>>

SpecSection == InitSection /\ [][CallExtractSection]_vars

\* ---- C17 ----
\* the windows of the finished _extract_section call, stated on indices
SectionCall == call.fn = "_extract_section" /\ call.result # None
Html == call.args[1]
Occurrences(kw) ==
    LET low == LowerStr(Html)
    IN  {i \in 0..(Len(low) - Len(kw)) : \A k \in 1..Len(kw) : low[i + k] = kw[k]}
WindowStart(idx) == IF idx - 200 > 0 THEN idx - 200 ELSE 0
WindowEnd(idx) == IF idx + call.args[3] < Len(Html) THEN idx + call.args[3] ELSE Len(Html)
WindowTables(idx) ==
    LET low == LowerStr(Html)
        tag == <<"<", "t", "a", "b", "l", "e">>
    IN  Cardinality({j \in WindowStart(idx)..(WindowEnd(idx) - 6) :
                        \A k \in 1..6 : low[j + k] = tag[k]})
WindowNumbers(idx) ==
    LET digit(j) == j >= WindowStart(idx) /\ j < WindowEnd(idx) /\ IsDigit(Html[j + 1])
    IN  Cardinality({j \in WindowStart(idx)..(WindowEnd(idx) - 1) :
                        /\ digit(j) /\ digit(j + 1) /\ digit(j + 2)
                        /\ ~digit(j - 1)})
WindowScore(idx) == 5 * WindowTables(idx) + WindowNumbers(idx)
Chosen(kw) ==
    LET occ == Occurrences(kw)
        score == [i \in occ |-> WindowScore(i)]
    IN  CHOOSE i \in occ :
            \A j \in occ : score[i] > score[j] \/ (score[i] = score[j] /\ i <= j)
Qualifying ==
    {k \in 1..Len(call.args[2]) :
        /\ Occurrences(call.args[2][k]) # {}
        /\ WindowScore(Chosen(call.args[2][k])) > 10}

\* C17: the plain-text pass scores the window [max(0, idx-200),
\* min(len, idx+max_chars)) of every occurrence of a keyword as 5 x tables +
\* runs of three or more digits; a keyword gives its strictly highest window,
\* the earliest on a tie, and only when that score is above 10; the call
\* returns the window of the first such keyword and "" when there is none.
C17_BestWindow ==
    SectionCall =>
        LET qualifying == Qualifying
        IN  IF qualifying = {} THEN call.result = Some(<<>>)
            ELSE LET k == CHOOSE q \in qualifying : \A r \in qualifying : q <= r
                     idx == Chosen(call.args[2][k])
                 IN  call.result = Some(SubSeq(Html, WindowStart(idx) + 1, WindowEnd(idx)))

\* a keyword has two windows of the same score above 10 that differ, and the
\* call has returned
C17_Witness ==
    /\ SectionCall
    /\ \E k \in Qualifying :
          \E i, j \in Occurrences(call.args[2][k]) :
              /\ i < j /\ i = Chosen(call.args[2][k])
              /\ WindowScore(i) = WindowScore(j)
              /\ WindowEnd(i) # WindowEnd(j)

\* ---- the corp-code master (dart_api.py 21-67) ----
\* corp_code_cache is _corp_code_cache, cache_file the <list> items of
\* corp_codes.xml (None while the file does not exist), io_log what the
\* processes did: "start" of a process, "download" from DART, "parse" of the file.

\* what DART answers to corpCode.xml: an older master and one with a new company
Masters == {CorpItems(<< <<"a">> >>), CorpItems(<< <<"a">>, <<"b">> >>)}

\* a faulty load that fetches the master whenever the process has no table
load_corp_codes_refreshing(cache, file, master, ok) ==
    IF cache # None THEN [cache |-> cache, file |-> file, io |-> <<>>, raised |-> FALSE]
    ELSE IF ~ok THEN [cache |-> None, file |-> file, io |-> <<"download">>, raised |-> TRUE]
    ELSE [cache |-> Some(load_corp_codes(master)), file |-> Some(master),
          io |-> <<"download", "parse">>, raised |-> FALSE]

\* dart_api.py 24-67: _load_corp_codes with _download_corp_codes.  master is
\* DART's answer and ok whether the request and the unzip succeed; a failure
\* raises before dest.write_bytes (lines 63-66)
load_corp_codes_cached(cache, file, master, ok) ==
    IF cache # None THEN [cache |-> cache, file |-> file, io |-> <<>>, raised |-> FALSE]
    ELSE IF file = None /\ ~ok
         THEN [cache |-> None, file |-> None, io |-> <<"download">>, raised |-> TRUE]
         ELSE LET f == IF file = None THEN Some(master) ELSE file
              IN  [cache |-> Some(load_corp_codes(f[1])), file |-> f,
                   io |-> (IF file = None THEN <<"download">> ELSE <<>>) \o <<"parse">>,
                   raised |-> FALSE]

InitCorpCodes ==
    /\ PipelineIdle
    /\ call = [fn |-> "none"]
    /\ corp_code_cache = None
    /\ cache_file \in {None} \cup {Some(m) : m \in Masters}
    /\ io_log = <<>>

\* dart_api.py 70-91: a call of search_corp_code in the running process
SearchCorpCode ==
    \E company_name \in {<<"a">>, <<"b">>}, master \in Masters, ok \in BOOLEAN :
        LET r == load_corp_codes_cached(corp_code_cache, cache_file, master, ok)
        IN  /\ Len(io_log) + Len(r.io) <= MaxLog
            /\ corp_code_cache' = r.cache
            /\ cache_file' = r.file
            /\ io_log' = io_log \o r.io
            /\ call' = [fn |-> "search_corp_code", args |-> <<company_name>>,
                        raised |-> r.raised, table |-> r.cache,
                        result |-> IF r.raised THEN None
                                   ELSE search_corp_code(r.cache[1], company_name)]
            /\ UNCHANGED pipeline

\* dart_api.py 21: the process ends and another one imports the module
NewProcess ==
    /\ Len(io_log) < MaxLog
    /\ corp_code_cache' = None
    /\ io_log' = Append(io_log, "start")
    /\ call' = [fn |-> "none"]
    /\ UNCHANGED <<pipeline, cache_file>>

SpecCorpCodes == InitCorpCodes /\ [][SearchCorpCode \/ NewProcess]_vars

\* ---- C18 ----
\* what the step added to io_log
NewEvents == SubSeq(io_log', Len(io_log) + 1, Len(io_log'))
\* the events of the running process
SinceStart ==
    LET starts == {i \in 1..Len(io_log) : io_log[i] = "start"}
    IN  SubSeq(io_log, IF starts = {} THEN 1 ELSE Last(starts) + 1, Len(io_log))
IsParse(e) == e = "parse"

\* C18: the master is downloaded only while corp_codes.xml does not exist and
\* parsed at most once per process; once a process holds the table every later
\* call returns that table with no download and no parse; the file, once it
\* exists, is never written again; and a search for a name no item of the file
\* contains returns None.
C18_MasterCachedOnce ==
    /\ [][(\E i \in DOMAIN NewEvents : NewEvents[i] = "download") => cache_file = None]_vars
    /\ [](Len(SelectSeq(SinceStart, IsParse)) <= 1)
    /\ [][corp_code_cache # None /\ corp_code_cache' # None =>
              /\ io_log' = io_log
              /\ corp_code_cache' = corp_code_cache
              /\ call'.table = corp_code_cache]_vars
    /\ [][cache_file # None => cache_file' = cache_file]_vars
    /\ [](call.fn = "search_corp_code" /\ ~call.raised =>
              /\ cache_file # None
              /\ ContainingAt(cache_file[1], call.args[1]) = {} => call.result = None)

\* a later process searches a company that DART's master has and the file,
\* downloaded once, has not
C18_Witness ==
    /\ call.fn = "search_corp_code" /\ ~call.raised /\ call.result = None
    /\ \E i \in DOMAIN io_log : io_log[i] = "start" /\ \E j \in 1..(i - 1) : io_log[j] = "download"
    /\ SinceStart = <<"parse">>
    /\ \E m \in Masters : ContainingAt(m, call.args[1]) # {}
====
